---------------------------- MODULE Spec2Model ----------------------------
(***************************************************************************)
(* A model of the retrieval-augmented generation service of                *)
(* src/app/rag_service.py (class RAGService) and of the upload permissions *)
(* of src/app/kb_manager.py (class KnowledgeBaseManager).                  *)
(*                                                                         *)
(*   ChunkSpec     RAGService.chunk_text, one step per loop iteration      *)
(*   CosineSpec    RAGService.cosine_similarity on arbitrary vectors       *)
(*   RetrieveSpec  RAGService.retrieve_relevant_chunks, one step per       *)
(*                 candidate, then the sort, then the slice                *)
(*   EmbedSpec     RAGService.generate_embedding, generate_embeddings_batch*)
(*   AnswerSpec    RAGService.generate_answer, one step per context chunk, *)
(*                 then the messages, then the provider's answer           *)
(*   QuerySpec     RAGService.process_query, running the steps of the      *)
(*                 three operations it calls; QueryLiveSpec adds that the  *)
(*                 query keeps running                                     *)
(*   ConcSpec      several process_query invocations on one RAGService,    *)
(*                 one step per stage of an invocation                     *)
(*   KbSpec        KnowledgeBaseManager (src/app/kb_manager.py): content   *)
(*                 managers and upload_document                            *)
(*                                                                         *)
(* Strings are sequences of characters.  Python's int is unbounded, so     *)
(* the integers keep no width.  Embedding components are floats in the     *)
(* code; here they are integers (cosine similarity does not change when a  *)
(* vector is scaled by a positive factor, so [0.9, 0.1, 0] is modelled as  *)
(* <<9, 1, 0>>) and a similarity is kept as an exact value, see Zero.      *)
(***************************************************************************)
EXTENDS Integers, Sequences, FiniteSets

VARIABLES
    \* ---- chunk_text (src/app/rag_service.py:52-77)
    cpc,            \* position in chunk_text: "idle", "call", "loop", "done"
    text,           \* argument text
    chunk_size,     \* argument chunk_size
    overlap,        \* argument overlap
    chunks,         \* local chunks (line 67), the returned list
    start,          \* local start (line 68)
    text_len,       \* local text_len (line 69)
    offsets,        \* history: the value of start at each chunks.append
    outcome,        \* how the call ended: "none", "returned", "InputError"
    \* ---- cosine_similarity (src/app/rag_service.py:119-130)
    spc,            \* position in cosine_similarity: "idle", "call", "done"
    vec1,           \* argument vec1
    vec2,           \* argument vec2
    similarity,     \* the value returned, or the error raised
    \* ---- retrieve_relevant_chunks (src/app/rag_service.py:132-158)
    rpc,            \* position: "idle", "scan", "sort", "slice", "done"
    query_embedding,\* argument query_embedding
    document_chunks,\* argument chunks, the caller's candidate list
    top_k,          \* argument top_k
    idx,            \* how many candidates the for loop has visited
    scored_chunks,  \* local scored_chunks: (similarity, chunk) pairs
    relevant,       \* the returned list of chunks
    \* ---- generate_embedding, generate_embeddings_batch (lines 79-117)
    epc,            \* position: "idle", "call", "done", "failed"
    embed_batch,    \* TRUE for generate_embeddings_batch
    embed_input,    \* argument text (a string) or texts (a list of strings)
    embed_requests, \* history: the input of each embeddings.create request
    embed_response, \* response.data of the provider, a list of items
    embed_result,   \* the value returned: None, or Some(value)
    provider_error, \* history: the error the provider raised, or "none"
    embed_error,    \* the error raised to the caller, or "none"
    \* ---- generate_answer (lines 160-226)
    apc,            \* position: "idle", "build", "request", "done", "failed"
    question,       \* argument question
    context_chunks, \* argument context_chunks
    system_prompt,  \* argument system_prompt: None, or Some(string)
    context_parts,  \* local context_parts
    sources,        \* local sources
    messages,       \* local messages
    gen_requests,   \* history: the messages of each chat.completions request
    rag_response,   \* the RAGResponse returned: None, or Some(response)
    gen_provider_error, \* history: the error the provider raised, or "none"
    gen_error,      \* the error raised to the caller, or "none"
    \* ---- process_query (lines 228-256); its arguments question,
    \* document_chunks and top_k are the variables of those names above: the
    \* same objects are handed on to the operations it calls
    ppc,            \* position: "idle", "init", "embed", "retrieve",
                    \* "synthesize", "done", "failed"
    pool_before,    \* history: document_chunks as the caller passed it
    pipe_result,    \* the RAGResponse returned: None, or Some(response)
    pipe_error,     \* the error raised to the caller, or "none"
    \* ---- KnowledgeBaseManager (src/app/kb_manager.py)
    admin_users,     \* self.config.admin_users
    knowledge_bases, \* self.knowledge_bases: kb_id -> knowledge base
    blob_uploads,    \* the upload_file calls blob storage has taken
    index_documents, \* the index_document calls the search index has taken
    last_call,       \* the last operation called, its arguments and result
    \* ---- concurrent process_query invocations on one RAGService
    service,         \* the attributes of the RAGService (lines 48-49)
    calls            \* invocation -> its arguments, locals and outcome

chunkVars == <<cpc, text, chunk_size, overlap, chunks, start, text_len,
               offsets, outcome>>
cosVars   == <<spc, vec1, vec2, similarity>>
retrVars  == <<rpc, query_embedding, document_chunks, top_k, idx,
               scored_chunks, relevant>>
embedVars == <<epc, embed_batch, embed_input, embed_requests, embed_response,
               embed_result, provider_error, embed_error>>
ansVars   == <<apc, question, context_chunks, system_prompt, context_parts,
               sources, messages, gen_requests, rag_response,
               gen_provider_error, gen_error>>
pipeVars  == <<ppc, pool_before, pipe_result, pipe_error>>
kbVars    == <<admin_users, knowledge_bases, blob_uploads, index_documents,
               last_call>>
concVars  == <<service, calls>>
vars      == <<chunkVars, cosVars, retrVars, embedVars, ansVars, pipeVars,
               kbVars, concVars>>

\* what an operation leaves alone: the state of the other operations
notChunkVars == <<cosVars, retrVars, embedVars, ansVars, pipeVars, kbVars, concVars>>
notCosVars   == <<chunkVars, retrVars, embedVars, ansVars, pipeVars, kbVars, concVars>>
notRetrVars  == <<chunkVars, cosVars, embedVars, ansVars, pipeVars, kbVars, concVars>>
notEmbedVars == <<chunkVars, cosVars, retrVars, ansVars, pipeVars, kbVars, concVars>>
notAnsVars   == <<chunkVars, cosVars, retrVars, embedVars, pipeVars, kbVars, concVars>>
notKbVars    == <<chunkVars, cosVars, retrVars, embedVars, ansVars, pipeVars,
                 concVars>>
notConcVars  == <<chunkVars, cosVars, retrVars, embedVars, ansVars, pipeVars, kbVars>>

---------------------------------------------------------------------------
(* Bounds of the model. *)

MaxLen  == 3      \* longest text drawn freely
MaxSize == 3      \* largest chunk_size and overlap drawn
MaxIter == 5      \* cap on loop iterations of chunk_text (> MaxLen)
MaxChunks == 2    \* longest candidate list drawn freely
MaxTopK == 3      \* largest top_k drawn (> MaxChunks)
MaxBatch == 2     \* longest list of texts given to generate_embeddings_batch
MaxContext == 2   \* longest context_chunks list given to generate_answer
MaxCalls == 2      \* process_query invocations running at once
MaxPolicies == 1  \* longest list of access policies given to a knowledge base
MaxUploads == 1   \* most uploads blob storage takes in one behaviour

PreviewLen      == 200    \* line 186: chunk.text[:200], len(chunk.text) > 200
ConfidenceScale == 500    \* line 217: len(answer) / 500

(* The arguments of TestRAGService.test_chunk_text_basic (Scenario A). *)
ScenarioLen     == 2500
ScenarioSize    == 1000
ScenarioOverlap == 200

Alphabet == {"a", "b"}
Texts    == UNION {[1..n -> Alphabet] : n \in 0..MaxLen}
Sizes    == (-1)..MaxSize
ScenarioText == [i \in 1..ScenarioLen |-> "a"]

Min(a, b) == IF a < b THEN a ELSE b
Max(a, b) == IF a > b THEN a ELSE b

---------------------------------------------------------------------------
(* Python helpers. *)

\* An index of a slice s[lo:hi], normalised as Python does for a sequence of
\* length n: a negative index counts from the end, then it is clamped to 0..n.
PyIndex(i, n) ==
    IF i < 0 THEN Max(i + n, 0) ELSE Min(i, n)

\* s[lo:hi] with integer lo and hi (step 1).
PySlice(s, lo, hi) ==
    LET l == PyIndex(lo, Len(s))
        h == PyIndex(hi, Len(s))
    IN  IF h <= l THEN <<>> ELSE SubSeq(s, l + 1, h)

\* Truth value of a str or list: empty is false.
Truthy(s) == s # <<>>

---------------------------------------------------------------------------
(* chunk_text *)

\* "while start < text_len"
LoopCond_NoTail(s, n) == s + chunk_size < n
LoopCond(s, n) == s < n

\* "start += chunk_size - overlap"
NextStart_NoOverlap(s, cs, ov) == s + cs
NextStart(s, cs, ov) == s + cs - ov

\* "chunk = text[start:end]" with end = start + chunk_size
Window(t, s, cs) == PySlice(t, s, s + cs)

\* "if not text"
TextIsEmpty_Never(t) == FALSE
TextIsEmpty(t) == ~Truthy(t)

ChunkInit ==
    /\ cpc = "call"
    /\ \/ /\ text \in Texts
          /\ chunk_size \in Sizes
          /\ overlap \in Sizes
       \/ /\ text = ScenarioText
          /\ chunk_size = ScenarioSize
          /\ overlap = ScenarioOverlap
    /\ chunks = <<>>
    /\ start = 0
    /\ text_len = 0
    /\ offsets = <<>>
    /\ outcome = "none"

\* lines 64-65: the empty text returns [] at once
ChunkEmptyReturn ==
    /\ cpc = "call"
    /\ TextIsEmpty(text)
    /\ cpc' = "done"
    /\ chunks' = <<>>
    /\ outcome' = "returned"
    /\ UNCHANGED <<text, chunk_size, overlap, start, text_len, offsets>>
    /\ UNCHANGED notChunkVars

\* lines 67-69
ChunkBegin ==
    /\ cpc = "call"
    /\ ~TextIsEmpty(text)
    /\ cpc' = "loop"
    /\ chunks' = <<>>
    /\ start' = 0
    /\ text_len' = Len(text)
    /\ UNCHANGED <<text, chunk_size, overlap, offsets, outcome>>
    /\ UNCHANGED notChunkVars

\* lines 71-75: one iteration of the while loop
ChunkLoopIter ==
    /\ cpc = "loop"
    /\ LoopCond(start, text_len)
    /\ Len(chunks) < MaxIter
    /\ chunks' = Append(chunks, Window(text, start, chunk_size))
    /\ offsets' = Append(offsets, start)
    /\ start' = NextStart(start, chunk_size, overlap)
    /\ UNCHANGED <<cpc, text, chunk_size, overlap, text_len, outcome>>
    /\ UNCHANGED notChunkVars

\* lines 71 and 77: the loop condition fails, return chunks
ChunkReturn ==
    /\ cpc = "loop"
    /\ ~LoopCond(start, text_len)
    /\ cpc' = "done"
    /\ outcome' = "returned"
    /\ UNCHANGED <<text, chunk_size, overlap, chunks, start, text_len, offsets>>
    /\ UNCHANGED notChunkVars

---------------------------------------------------------------------------
(* cosine_similarity *)

\* A similarity is the real number dot / sqrt(m1 * m2), with m1 and m2 the
\* squared magnitudes.  It is kept exactly, as the fraction num / den in
\* lowest terms of its signed square sign(dot) * dot^2 / (m1 * m2); squaring
\* with the sign kept preserves order and equality.  0.0 is [num 0, den 1].
Zero == [num |-> 0, den |-> 1]
One  == [num |-> 1, den |-> 1]
ZeroDivisionError == [num |-> 0, den |-> 0]

Abs(x) == IF x < 0 THEN -x ELSE x

RECURSIVE Gcd(_, _)
Gcd(a, b) == IF b = 0 THEN a ELSE Gcd(b, a % b)

RECURSIVE SumTo(_, _)
\* sum of f[1..n]
SumTo(f, n) == IF n = 0 THEN 0 ELSE f[n] + SumTo(f, n - 1)

\* line 123: sum(a * b for a, b in zip(vec1, vec2)); zip stops at the shorter
DotProduct(v1, v2) ==
    LET n == Min(Len(v1), Len(v2))
    IN  SumTo([i \in 1..n |-> v1[i] * v2[i]], n)

\* lines 124-125 without the square root: sum(a * a for a in vec)
SumSquares(v) == SumTo([i \in 1..Len(v) |-> v[i] * v[i]], Len(v))

\* line 127: magnitude1 == 0 or magnitude2 == 0 (sqrt(x) = 0 iff x = 0)
ZeroMagnitude_FirstOnly(m1, m2) == m1 = 0
ZeroMagnitude(m1, m2) == m1 = 0 \/ m2 = 0

\* line 130: dot_product / (magnitude1 * magnitude2); a float division by
\* zero raises ZeroDivisionError
Divide_NoSqrt(dot, m1, m2) ==
    IF m1 * m2 = 0 THEN ZeroDivisionError
    ELSE LET n == dot * Abs(dot)
             d == (m1 * m2) * (m1 * m2)
             g == Gcd(Abs(n), d)
         IN  [num |-> n \div g, den |-> d \div g]

Divide(dot, m1, m2) ==
    IF m1 * m2 = 0 THEN ZeroDivisionError
    ELSE LET n == dot * Abs(dot)
             d == m1 * m2
             g == Gcd(Abs(n), d)
         IN  [num |-> n \div g, den |-> d \div g]

\* a zero magnitude scored as the lowest similarity, -1
CosineSimilarity_ZeroAsLowest(v1, v2) ==
    LET dot_product == DotProduct(v1, v2)
        m1 == SumSquares(v1)
        m2 == SumSquares(v2)
    IN  IF ZeroMagnitude(m1, m2)
        THEN [num |-> -1, den |-> 1]
        ELSE Divide(dot_product, m1, m2)

CosineSimilarity(v1, v2) ==
    LET dot_product == DotProduct(v1, v2)
        m1 == SumSquares(v1)
        m2 == SumSquares(v2)
    IN  IF ZeroMagnitude(m1, m2) THEN Zero ELSE Divide(dot_product, m1, m2)

\* a < b on similarities
ScoreLess(a, b) == a.num * b.den < b.num * a.den

Vals    == {-1, 0, 1}
Vec2    == {<<x, y>> : x, y \in Vals}
Vectors == UNION {[1..n -> Vals] : n \in 0..2}

CosineInit ==
    /\ spc = "call"
    /\ vec1 \in Vectors
    /\ vec2 \in Vectors
    /\ similarity = Zero

\* lines 123-128: a zero magnitude returns 0.0
CosineZeroReturn ==
    /\ spc = "call"
    /\ ZeroMagnitude(SumSquares(vec1), SumSquares(vec2))
    /\ spc' = "done"
    /\ similarity' = CosineSimilarity(vec1, vec2)
    /\ UNCHANGED <<vec1, vec2>>
    /\ UNCHANGED notCosVars

\* lines 123-127 and 130: the division
CosineDivideReturn ==
    /\ spc = "call"
    /\ ~ZeroMagnitude(SumSquares(vec1), SumSquares(vec2))
    /\ spc' = "done"
    /\ similarity' = CosineSimilarity(vec1, vec2)
    /\ UNCHANGED <<vec1, vec2>>
    /\ UNCHANGED notCosVars

---------------------------------------------------------------------------
(* retrieve_relevant_chunks *)

\* Chunk.embedding is Optional[List[float]] (line 28): None, or a list.
None    == <<>>
Some(v) == <<v>>

\* line 152: "if chunk.embedding": None and the empty list are both false
EmbeddingTruthy_NotNone(e) == e # None
EmbeddingTruthy(e) == e # None /\ Truthy(e[1])

\* line 157: list.sort(key=lambda x: x[0], reverse=True) is stable: of two
\* entries with equal keys the one that was first stays first.  x goes in
\* after every entry whose key is not smaller.
RECURSIVE InsertDesc_TiesFirst(_, _)
InsertDesc_TiesFirst(sorted, x) ==
    IF sorted = <<>> THEN <<x>>
    ELSE IF ScoreLess(x.similarity, Head(sorted).similarity)
         THEN <<Head(sorted)>> \o InsertDesc_TiesFirst(Tail(sorted), x)
         ELSE <<x>> \o sorted

RECURSIVE InsertDesc(_, _)
InsertDesc(sorted, x) ==
    IF sorted = <<>> THEN <<x>>
    ELSE IF ScoreLess(Head(sorted).similarity, x.similarity)
         THEN <<x>> \o sorted
         ELSE <<Head(sorted)>> \o InsertDesc(Tail(sorted), x)

RECURSIVE SortDescUpTo(_, _)
SortDescUpTo(s, n) ==
    IF n = 0 THEN <<>> ELSE InsertDesc(SortDescUpTo(s, n - 1), s[n])

SortDesc_Unsorted(s) == s
SortDesc(s) == SortDescUpTo(s, Len(s))

\* line 158: scored_chunks[:top_k]
TopK_OneMore(s, k) == PySlice(s, 0, k + 1)
TopK(s, k) == PySlice(s, 0, k)

\* lines 149-158 as one function of the arguments: score the candidates
\* that have an embedding, sort, slice, and keep the chunks
RECURSIVE ScoredUpTo(_, _, _)
ScoredUpTo(qe, pool, n) ==
    IF n = 0 THEN <<>>
    ELSE LET chunk == pool[n]
             before == ScoredUpTo(qe, pool, n - 1)
         IN  IF EmbeddingTruthy(chunk.embedding)
             THEN Append(before,
                    [similarity |-> CosineSimilarity(qe, chunk.embedding[1]),
                     chunk |-> chunk])
             ELSE before

RetrieveRelevantChunks(qe, pool, k) ==
    LET top == TopK(SortDesc(ScoredUpTo(qe, pool, Len(pool))), k)
    IN  [i \in 1..Len(top) |-> top[i].chunk]

Embeddings == {None} \cup {Some(v) : v \in Vec2 \cup {<<>>}}
TopKs      == (-1)..MaxTopK

ChunkLists ==
    UNION {{[i \in 1..n |-> [chunk_id |-> i, embedding |-> f[i]]] :
              f \in [1..n -> Embeddings]} : n \in 0..MaxChunks}

(* Scenario B, TestRAGService.test_retrieve_relevant_chunks, scaled by 10. *)
ScenarioQuery  == <<1, 0, 0>>
ScenarioChunks ==
    << [chunk_id |-> 1, embedding |-> Some(<<10, 0, 0>>)],
       [chunk_id |-> 2, embedding |-> Some(<<0, 10, 0>>)],
       [chunk_id |-> 3, embedding |-> Some(<<9, 1, 0>>)] >>

RetrieveInit ==
    /\ rpc = "scan"
    /\ \/ /\ query_embedding \in Vec2 \cup {<<>>}
          /\ document_chunks \in ChunkLists
          /\ top_k \in TopKs
       \/ /\ query_embedding = ScenarioQuery
          /\ document_chunks = ScenarioChunks
          /\ top_k = 2
    /\ idx = 0
    /\ scored_chunks = <<>>
    /\ relevant = <<>>

\* lines 151-154: the next candidate has an embedding and is scored
RetrieveScore ==
    /\ rpc = "scan"
    /\ idx < Len(document_chunks)
    /\ LET chunk == document_chunks[idx + 1]
       IN  /\ EmbeddingTruthy(chunk.embedding)
           /\ scored_chunks' = Append(scored_chunks,
                [similarity |-> CosineSimilarity(query_embedding, chunk.embedding[1]),
                 chunk |-> chunk])
    /\ idx' = idx + 1
    /\ UNCHANGED <<rpc, query_embedding, document_chunks, top_k, relevant>>
    /\ UNCHANGED notRetrVars

\* lines 151-152: the next candidate has no embedding and is passed over
RetrieveSkip ==
    /\ rpc = "scan"
    /\ idx < Len(document_chunks)
    /\ ~EmbeddingTruthy(document_chunks[idx + 1].embedding)
    /\ idx' = idx + 1
    /\ UNCHANGED <<rpc, query_embedding, document_chunks, top_k, scored_chunks,
                   relevant>>
    /\ UNCHANGED notRetrVars

\* the caller's list itself is replaced by the ranked chunks
RetrieveSort_SortsPool ==
    /\ rpc = "scan"
    /\ idx = Len(document_chunks)
    /\ scored_chunks' = SortDesc(scored_chunks)
    /\ document_chunks' = [i \in 1..Len(scored_chunks) |-> scored_chunks'[i].chunk]
    /\ rpc' = "slice"
    /\ UNCHANGED <<query_embedding, top_k, idx, relevant>>
    /\ UNCHANGED notRetrVars

\* line 157
RetrieveSort ==
    /\ rpc = "scan"
    /\ idx = Len(document_chunks)
    /\ scored_chunks' = SortDesc(scored_chunks)
    /\ rpc' = "slice"
    /\ UNCHANGED <<query_embedding, document_chunks, top_k, idx, relevant>>
    /\ UNCHANGED notRetrVars

\* line 158
RetrieveReturn ==
    /\ rpc = "slice"
    /\ relevant' = LET top == TopK(scored_chunks, top_k)
                   IN  [i \in 1..Len(top) |-> top[i].chunk]
    /\ rpc' = "done"
    /\ UNCHANGED <<query_embedding, document_chunks, top_k, idx, scored_chunks>>
    /\ UNCHANGED notRetrVars

---------------------------------------------------------------------------
(* generate_embedding and generate_embeddings_batch *)

\* The embedding provider (section 6): it answers a request with one item
\* per input text, in order, or fails with an error.
ProviderVectors == {<<1, 0>>, <<0, 0>>, <<-1, 1>>}
ProviderErrors  == {"APIConnectionError", "RateLimitError"}
EmbedTexts      == {<<>>, <<"a">>, <<"a", "b">>}
EmbedBatches    == UNION {[1..n -> EmbedTexts] : n \in 0..MaxBatch}

\* lines 95-97 and 115-117: "except Exception as e: logger.error(...); raise"
Reraise(e) == e

\* line 94: response.data[0].embedding
FirstEmbedding(data) == data[1].embedding

\* the vectors of the response, last item first
AllEmbeddings_Reversed(data) ==
    [i \in 1..Len(data) |-> data[Len(data) + 1 - i].embedding]

\* line 114: [item.embedding for item in response.data]
AllEmbeddings(data) == [i \in 1..Len(data) |-> data[i].embedding]

EmbedInit ==
    /\ epc = "call"
    /\ \/ embed_batch = FALSE /\ embed_input \in EmbedTexts
       \/ embed_batch = TRUE /\ embed_input \in EmbedBatches
    /\ embed_requests = <<>>
    /\ embed_response = <<>>
    /\ embed_result = None
    /\ provider_error = "none"
    /\ embed_error = "none"

\* lines 89-94: the request succeeds
EmbedProviderOk ==
    /\ epc = "call" /\ ~embed_batch
    /\ embed_requests' = Append(embed_requests, embed_input)
    /\ \E v \in ProviderVectors : embed_response' = <<[embedding |-> v]>>
    /\ embed_result' = Some(FirstEmbedding(embed_response'))
    /\ epc' = "done"
    /\ UNCHANGED <<embed_batch, embed_input, provider_error, embed_error>>
    /\ UNCHANGED notEmbedVars

\* one failed request that is tried again
EmbedProviderFail_Retry ==
    /\ epc = "call" /\ ~embed_batch
    /\ embed_requests' = Append(embed_requests, embed_input)
    /\ \E e \in ProviderErrors :
          IF embed_requests = <<>>
          THEN UNCHANGED <<epc, provider_error, embed_error>>
          ELSE /\ provider_error' = e
               /\ embed_error' = Reraise(e)
               /\ epc' = "failed"
    /\ UNCHANGED <<embed_batch, embed_input, embed_response, embed_result>>
    /\ UNCHANGED notEmbedVars

\* lines 89-97: the request fails, the error is logged and raised again
EmbedProviderFail ==
    /\ epc = "call" /\ ~embed_batch
    /\ embed_requests' = Append(embed_requests, embed_input)
    /\ \E e \in ProviderErrors :
          /\ provider_error' = e
          /\ embed_error' = Reraise(e)
    /\ epc' = "failed"
    /\ UNCHANGED <<embed_batch, embed_input, embed_response, embed_result>>
    /\ UNCHANGED notEmbedVars

\* lines 109-114: the batch request succeeds
EmbedBatchOk ==
    /\ epc = "call" /\ embed_batch
    /\ embed_requests' = Append(embed_requests, embed_input)
    /\ \E data \in [1..Len(embed_input) -> ProviderVectors] :
          embed_response' = [i \in 1..Len(embed_input) |-> [embedding |-> data[i]]]
    /\ embed_result' = Some(AllEmbeddings(embed_response'))
    /\ epc' = "done"
    /\ UNCHANGED <<embed_batch, embed_input, provider_error, embed_error>>
    /\ UNCHANGED notEmbedVars

\* lines 109-117: the batch request fails
EmbedBatchFail ==
    /\ epc = "call" /\ embed_batch
    /\ embed_requests' = Append(embed_requests, embed_input)
    /\ \E e \in ProviderErrors :
          /\ provider_error' = e
          /\ embed_error' = Reraise(e)
    /\ epc' = "failed"
    /\ UNCHANGED <<embed_batch, embed_input, embed_response, embed_result>>
    /\ UNCHANGED notEmbedVars

---------------------------------------------------------------------------
(* generate_answer *)

\* A string is a sequence: chunk texts, questions, answers and the ellipsis
\* are sequences of characters; each literal piece of a format string is kept
\* as one element.

\* str(n) of a small non-negative integer, as the f-string formats {i+1}
Str(n) == <<"0", "1", "2", "3", "4", "5", "6", "7", "8", "9">>[n + 1]

\* line 186: chunk.text[:200] + "..." if len(chunk.text) > 200 else chunk.text
TextPreview_FromLimit(t) ==
    IF Len(t) >= PreviewLen
    THEN PySlice(t, 0, PreviewLen) \o <<".", ".", ".">>
    ELSE t
TextPreview(t) ==
    IF Len(t) > PreviewLen
    THEN PySlice(t, 0, PreviewLen) \o <<".", ".", ".">>
    ELSE t

\* A dict is the set of its (key, value) pairs.
\* line 187: chunk.metadata or {}
MetadataOrEmpty(m) == IF m # None /\ m[1] # {} THEN m[1] ELSE {}

\* line 182: f"[Source {i+1}]: {chunk.text}", i counted from 0
SourcePart_Preview(i, chunk) ==
    <<"[Source ", Str(i + 1), "]: ">> \o TextPreview(chunk.text)
SourcePart(i, chunk) == <<"[Source ", Str(i + 1), "]: ">> \o chunk.text

\* lines 183-188
SourceEntry_IdsSwapped(chunk) ==
    [chunk_id     |-> chunk.document_id,
     document_id  |-> chunk.chunk_id,
     text_preview |-> TextPreview(chunk.text),
     metadata     |-> MetadataOrEmpty(chunk.metadata)]
SourceEntry(chunk) ==
    [chunk_id     |-> chunk.chunk_id,
     document_id  |-> chunk.document_id,
     text_preview |-> TextPreview(chunk.text),
     metadata     |-> MetadataOrEmpty(chunk.metadata)]

\* line 190: "\n\n".join(context_parts)
RECURSIVE JoinParts(_)
JoinParts(parts) ==
    IF parts = <<>> THEN <<>>
    ELSE IF Len(parts) = 1 THEN parts[1]
    ELSE parts[1] \o <<"\n\n">> \o JoinParts(Tail(parts))

\* lines 194-198
DefaultSystemPrompt ==
    <<"You are a helpful AI assistant that answers questions based on the provided context. Use the context to answer the question accurately. If the answer cannot be found in the context, say so. Cite the source numbers when referencing information.">>

\* lines 193-198: "if not system_prompt": None and "" both take the default
EffectivePrompt_AlwaysDefault(sp) == DefaultSystemPrompt
EffectivePrompt(sp) ==
    IF sp # None /\ Truthy(sp[1]) THEN sp[1] ELSE DefaultSystemPrompt

\* lines 201-204
BuildMessages(sp, parts, q) ==
    << [role |-> "system", content |-> EffectivePrompt(sp)],
       [role |-> "user",
        content |-> <<"Context:\n">> \o JoinParts(parts)
                       \o <<"\n\nQuestion: ">> \o q] >>

\* line 217: min(1.0, len(answer) / 500), an exact fraction num / den
Confidence_NoCap(answer) == [num |-> Len(answer), den |-> ConfidenceScale]
Confidence(answer) ==
    IF Len(answer) > ConfidenceScale
    THEN One
    ELSE [num |-> Len(answer), den |-> ConfidenceScale]

\* The generation provider (section 6): one generated text, or an error.
\* Both providers are reached through the one client of line 49, and a
\* client error such as RateLimitError can come from either call.
GenErrors == {"APITimeoutError", "RateLimitError"}
AnswerLens == {0, 1, ConfidenceScale - 1, ConfidenceScale, ConfidenceScale + 1}
Answers == {[i \in 1..n |-> "x"] : n \in AnswerLens}

TextOfLen(n) == [i \in 1..n |-> IF i % 2 = 1 THEN "a" ELSE "b"]
ContextTexts == {TextOfLen(n) : n \in {0, 2, PreviewLen, PreviewLen + 1}}
Metadatas == {None, Some({}), Some({<<"source", "doc1">>})}
Questions == {<<>>, <<"q", "?">>}
SystemPrompts == {None, Some(<<>>), Some(<<"Answer in one sentence.">>)}

\* chunk_id is the position in the list, document_id differs from it
ContextLists ==
    UNION {{[i \in 1..n |-> [chunk_id |-> i, document_id |-> 100 + i,
                             text |-> t[i], embedding |-> None,
                             metadata |-> md[i]]] :
              t \in [1..n -> ContextTexts], md \in [1..n -> Metadatas]} :
           n \in 0..MaxContext}

AnswerInit ==
    /\ apc = "build"
    /\ question \in Questions
    /\ context_chunks \in ContextLists
    /\ system_prompt \in SystemPrompts
    /\ context_parts = <<>>
    /\ sources = <<>>
    /\ messages = <<>>
    /\ gen_requests = <<>>
    /\ rag_response = None
    /\ gen_provider_error = "none"
    /\ gen_error = "none"

\* lines 181-188: one iteration of the for loop
AnswerAddSource ==
    /\ apc = "build"
    /\ Len(context_parts) < Len(context_chunks)
    /\ LET i == Len(context_parts)
           chunk == context_chunks[i + 1]
       IN  /\ context_parts' = Append(context_parts, SourcePart(i, chunk))
           /\ sources' = Append(sources, SourceEntry(chunk))
    /\ UNCHANGED <<apc, question, context_chunks, system_prompt, messages,
                   gen_requests, rag_response, gen_provider_error, gen_error>>
    /\ UNCHANGED notAnsVars

\* the loop is over with no chunk: answer without asking the provider
AnswerBuildMessages_SkipEmpty ==
    /\ apc = "build"
    /\ Len(context_parts) = Len(context_chunks)
    /\ messages' = BuildMessages(system_prompt, context_parts, question)
    /\ IF context_chunks = <<>>
       THEN /\ apc' = "done"
            /\ rag_response' = Some([answer |-> <<>>, sources |-> sources,
                                     confidence |-> Confidence(<<>>)])
       ELSE /\ apc' = "request"
            /\ UNCHANGED rag_response
    /\ UNCHANGED <<question, context_chunks, system_prompt, context_parts,
                   sources, gen_requests, gen_provider_error, gen_error>>
    /\ UNCHANGED notAnsVars

\* lines 190-204: the loop is over; context, system prompt, messages
AnswerBuildMessages ==
    /\ apc = "build"
    /\ Len(context_parts) = Len(context_chunks)
    /\ messages' = BuildMessages(system_prompt, context_parts, question)
    /\ apc' = "request"
    /\ UNCHANGED <<question, context_chunks, system_prompt, context_parts,
                   sources, gen_requests, rag_response, gen_provider_error,
                   gen_error>>
    /\ UNCHANGED notAnsVars

\* lines 206-223: the request succeeds
AnswerProviderOk ==
    /\ apc = "request"
    /\ gen_requests' = Append(gen_requests, messages)
    /\ \E answer \in Answers :
          rag_response' = Some([answer |-> answer, sources |-> sources,
                                confidence |-> Confidence(answer)])
    /\ apc' = "done"
    /\ UNCHANGED <<question, context_chunks, system_prompt, context_parts,
                   sources, messages, gen_provider_error, gen_error>>
    /\ UNCHANGED notAnsVars

\* the request fails and an answer without text is returned in its place
AnswerProviderFail_Fallback ==
    /\ apc = "request"
    /\ gen_requests' = Append(gen_requests, messages)
    /\ \E e \in GenErrors : gen_provider_error' = e
    /\ rag_response' = Some([answer |-> <<>>, sources |-> sources,
                             confidence |-> Confidence(<<>>)])
    /\ apc' = "done"
    /\ UNCHANGED <<question, context_chunks, system_prompt, context_parts,
                   sources, messages, gen_error>>
    /\ UNCHANGED notAnsVars

\* lines 206-212 and 224-226: the request fails, the error is logged and
\* raised again
AnswerProviderFail ==
    /\ apc = "request"
    /\ gen_requests' = Append(gen_requests, messages)
    /\ \E e \in GenErrors :
          /\ gen_provider_error' = e
          /\ gen_error' = Reraise(e)
    /\ apc' = "failed"
    /\ UNCHANGED <<question, context_chunks, system_prompt, context_parts,
                   sources, messages, rag_response>>
    /\ UNCHANGED notAnsVars

---------------------------------------------------------------------------
(* process_query *)

\* The pool of a query: chunks with and without an embedding, with short and
\* long texts, with and without metadata.
PoolEmbeddings ==
    {None, Some(<<1, 0>>), Some(<<0, 0>>)}
PoolContents ==
    {[text |-> TextOfLen(2), metadata |-> None],
     [text |-> TextOfLen(PreviewLen + 1),
      metadata |-> Some({<<"source", "doc1">>})]}
PoolLists ==
    UNION {{[i \in 1..n |-> [chunk_id |-> i, document_id |-> 100 + i,
                             text |-> c[i].text, embedding |-> em[i],
                             metadata |-> c[i].metadata]] :
              c \in [1..n -> PoolContents], em \in [1..n -> PoolEmbeddings]} :
           n \in 0..MaxChunks}

QueryInit ==
    /\ ppc = "init"
    /\ question \in Questions
    /\ document_chunks \in PoolLists
    /\ top_k \in TopKs
    /\ pool_before = document_chunks
    /\ pipe_result = None
    /\ pipe_error = "none"
    \* the operations it calls have not started
    /\ epc = "idle" /\ embed_batch = FALSE /\ embed_input = <<>>
    /\ embed_requests = <<>> /\ embed_response = <<>> /\ embed_result = None
    /\ provider_error = "none" /\ embed_error = "none"
    /\ rpc = "idle" /\ query_embedding = <<>> /\ idx = 0
    /\ scored_chunks = <<>> /\ relevant = <<>>
    /\ apc = "idle" /\ context_chunks = <<>> /\ system_prompt = None
    /\ context_parts = <<>> /\ sources = <<>> /\ messages = <<>>
    /\ gen_requests = <<>> /\ rag_response = None
    /\ gen_provider_error = "none" /\ gen_error = "none"

\* line 246: self.generate_embedding(question) is called
QueryEmbedCall ==
    /\ ppc = "init"
    /\ ppc' = "embed"
    /\ epc' = "call"
    /\ embed_batch' = FALSE
    /\ embed_input' = question
    /\ UNCHANGED <<embed_requests, embed_response, embed_result,
                   provider_error, embed_error>>
    /\ UNCHANGED <<pool_before, pipe_result, pipe_error>>
    /\ UNCHANGED <<concVars, kbVars, chunkVars, cosVars, retrVars, ansVars>>

\* generate_embedding raised and the query goes on with an empty embedding
QueryEmbedFailed_GoesOn ==
    /\ ppc = "embed" /\ epc = "failed"
    /\ ppc' = "retrieve"
    /\ query_embedding' = <<>>
    /\ rpc' = "scan"
    /\ UNCHANGED <<document_chunks, top_k, idx, scored_chunks, relevant>>
    /\ UNCHANGED <<pool_before, pipe_result, pipe_error>>
    /\ UNCHANGED <<concVars, kbVars, chunkVars, cosVars, embedVars, ansVars>>

\* line 246: generate_embedding raised; nothing catches it
QueryEmbedFailed ==
    /\ ppc = "embed" /\ epc = "failed"
    /\ ppc' = "failed"
    /\ pipe_error' = embed_error
    /\ UNCHANGED <<pool_before, pipe_result>>
    /\ UNCHANGED <<concVars, kbVars, chunkVars, cosVars, retrVars, embedVars, ansVars>>

\* the embedding is back and the whole pool goes to generate_answer unranked
QueryRetrieveCall_SkipRetrieval ==
    /\ ppc = "embed" /\ epc = "done"
    /\ ppc' = "synthesize"
    /\ context_chunks' = document_chunks
    /\ system_prompt' = None
    /\ apc' = "build"
    /\ context_parts' = <<>>
    /\ sources' = <<>>
    /\ UNCHANGED <<question, messages, gen_requests, rag_response,
                   gen_provider_error, gen_error>>
    /\ UNCHANGED <<pool_before, pipe_result, pipe_error>>
    /\ UNCHANGED <<concVars, kbVars, chunkVars, cosVars, retrVars, embedVars>>

\* lines 246-253: the embedding is back, retrieve_relevant_chunks is called
QueryRetrieveCall ==
    /\ ppc = "embed" /\ epc = "done"
    /\ ppc' = "retrieve"
    /\ query_embedding' = embed_result[1]
    /\ rpc' = "scan"
    /\ idx' = 0
    /\ scored_chunks' = <<>>
    /\ UNCHANGED <<document_chunks, top_k, relevant>>
    /\ UNCHANGED <<pool_before, pipe_result, pipe_error>>
    /\ UNCHANGED <<concVars, kbVars, chunkVars, cosVars, embedVars, ansVars>>

\* lines 249-256: the chunks are back, generate_answer is called with the
\* question and no system_prompt
QueryAnswerCall ==
    /\ ppc = "retrieve" /\ rpc = "done"
    /\ ppc' = "synthesize"
    /\ context_chunks' = relevant
    /\ system_prompt' = None
    /\ apc' = "build"
    /\ context_parts' = <<>>
    /\ sources' = <<>>
    /\ UNCHANGED <<question, messages, gen_requests, rag_response,
                   gen_provider_error, gen_error>>
    /\ UNCHANGED <<pool_before, pipe_result, pipe_error>>
    /\ UNCHANGED <<concVars, kbVars, chunkVars, cosVars, retrVars, embedVars>>

\* line 256: generate_answer raised; nothing catches it
QueryAnswerFailed ==
    /\ ppc = "synthesize" /\ apc = "failed"
    /\ ppc' = "failed"
    /\ pipe_error' = gen_error
    /\ UNCHANGED <<pool_before, pipe_result>>
    /\ UNCHANGED <<concVars, kbVars, chunkVars, cosVars, retrVars, embedVars, ansVars>>

\* line 256: return the response of generate_answer
QueryReturn ==
    /\ ppc = "synthesize" /\ apc = "done"
    /\ ppc' = "done"
    /\ pipe_result' = rag_response
    /\ UNCHANGED <<pool_before, pipe_error>>
    /\ UNCHANGED <<concVars, kbVars, chunkVars, cosVars, retrVars, embedVars, ansVars>>

---------------------------------------------------------------------------
(* KnowledgeBaseManager: content managers and uploads *)

Users  == {"admin@test.com", "user1", "user2@test.com"}
Owners == {"admin@test.com", "user1"}
KbIds  == {"kb1", "kb2"}
AdminSets == {{}, {"admin@test.com"}}

\* AccessPolicy.content_managers is a list of user ids (models.py:42)
ContentManagerLists == {<<>>, <<"user2@test.com">>}
PolicyLists ==
    UNION {{[i \in 1..n |-> [content_managers |-> f[i]]] :
              f \in [1..n -> ContentManagerLists]} : n \in 0..MaxPolicies}

\* line 114: self.knowledge_bases[kb_id] = kb
DictPut(d, k, v) == [x \in DOMAIN d \cup {k} |-> IF x = k THEN v ELSE d[x]]

\* lines 172-191
IsContentManager(kbs, admins, kb_id, user_id) ==
    IF kb_id \notin DOMAIN kbs THEN FALSE
    ELSE IF user_id \in admins THEN TRUE
    ELSE IF kbs[kb_id].owner_id = user_id THEN TRUE
    ELSE \E i \in 1..Len(kbs[kb_id].access_policies) :
            \E j \in 1..Len(kbs[kb_id].access_policies[i].content_managers) :
               kbs[kb_id].access_policies[i].content_managers[j] = user_id

\* a call as last_call keeps it; writes_before is history: how many uploads
\* blob storage and the search index had taken when the call began
Call(op, kb_id, user_id, result) ==
    [op |-> op, kb_id |-> kb_id, user_id |-> user_id, result |-> result,
     writes_before |-> <<Len(blob_uploads), Len(index_documents)>>]
NoCall ==
    [op |-> "none", kb_id |-> "none", user_id |-> "none", result |-> "none",
     writes_before |-> <<0, 0>>]

\* lines 21-50: a manager with no knowledge base
KbInit ==
    /\ admin_users \in AdminSets
    /\ knowledge_bases = [k \in {} |-> 0]
    /\ blob_uploads = <<>>
    /\ index_documents = <<>>
    /\ last_call = NoCall

\* lines 52-117: a knowledge base under a new id (uuid4)
CreateKnowledgeBase ==
    /\ \E kb_id \in KbIds \ DOMAIN knowledge_bases :
       \E owner_id \in Owners : \E access_policies \in PolicyLists :
          /\ knowledge_bases' = DictPut(knowledge_bases, kb_id,
                [owner_id |-> owner_id, access_policies |-> access_policies])
          /\ last_call' = Call("create_knowledge_base", kb_id, owner_id,
                               "KnowledgeBase")
    /\ UNCHANGED <<admin_users, blob_uploads, index_documents>>
    /\ UNCHANGED notKbVars

\* lines 148-170, the knowledge base exists
UpdateAccessPolicies ==
    /\ \E kb_id \in DOMAIN knowledge_bases : \E access_policies \in PolicyLists :
          /\ knowledge_bases' = [knowledge_bases EXCEPT
                                   ![kb_id].access_policies = access_policies]
          /\ last_call' = Call("update_access_policies", kb_id, "none",
                               "KnowledgeBase")
    /\ UNCHANGED <<admin_users, blob_uploads, index_documents>>
    /\ UNCHANGED notKbVars

\* lines 154-156: no such knowledge base
UpdateUnknownKb ==
    /\ \E kb_id \in KbIds \ DOMAIN knowledge_bases :
          last_call' = Call("update_access_policies", kb_id, "none",
                            "ValueError")
    /\ UNCHANGED <<admin_users, knowledge_bases, blob_uploads, index_documents>>
    /\ UNCHANGED notKbVars

\* lines 172-191
IsContentManagerCall ==
    /\ \E kb_id \in KbIds : \E user_id \in Users :
          last_call' = Call("is_content_manager", kb_id, user_id,
                IF IsContentManager(knowledge_bases, admin_users, kb_id, user_id)
                THEN "True" ELSE "False")
    /\ UNCHANGED <<admin_users, knowledge_bases, blob_uploads, index_documents>>
    /\ UNCHANGED notKbVars

\* lines 203-205: no such knowledge base
UploadUnknownKb ==
    /\ \E kb_id \in KbIds \ DOMAIN knowledge_bases : \E uploaded_by \in Users :
          last_call' = Call("upload_document", kb_id, uploaded_by, "ValueError")
    /\ UNCHANGED <<admin_users, knowledge_bases, blob_uploads, index_documents>>
    /\ UNCHANGED notKbVars

\* the upload goes ahead whoever asks
UploadDenied_Allowed ==
    /\ Len(blob_uploads) < MaxUploads
    /\ \E kb_id \in DOMAIN knowledge_bases : \E uploaded_by \in Users :
          /\ ~IsContentManager(knowledge_bases, admin_users, kb_id, uploaded_by)
          /\ blob_uploads' = Append(blob_uploads,
                [kb_id |-> kb_id, uploaded_by |-> uploaded_by])
          /\ index_documents' = Append(index_documents,
                [kb_id |-> kb_id, uploaded_by |-> uploaded_by])
          /\ last_call' = Call("upload_document", kb_id, uploaded_by, "Document")
    /\ UNCHANGED <<admin_users, knowledge_bases>>
    /\ UNCHANGED notKbVars

\* lines 207-209: the user is no content manager
UploadDenied ==
    /\ \E kb_id \in DOMAIN knowledge_bases : \E uploaded_by \in Users :
          /\ ~IsContentManager(knowledge_bases, admin_users, kb_id, uploaded_by)
          /\ last_call' = Call("upload_document", kb_id, uploaded_by,
                               "PermissionError")
    /\ UNCHANGED <<admin_users, knowledge_bases, blob_uploads, index_documents>>
    /\ UNCHANGED notKbVars

\* lines 216-222: blob storage raises, nothing catches it
UploadBlobFails ==
    /\ \E kb_id \in DOMAIN knowledge_bases : \E uploaded_by \in Users :
          /\ IsContentManager(knowledge_bases, admin_users, kb_id, uploaded_by)
          /\ last_call' = Call("upload_document", kb_id, uploaded_by,
                               "BlobStorageError")
    /\ UNCHANGED <<admin_users, knowledge_bases, blob_uploads, index_documents>>
    /\ UNCHANGED notKbVars

\* lines 211-258: the file is stored and indexed
UploadIndexed ==
    /\ Len(blob_uploads) < MaxUploads
    /\ \E kb_id \in DOMAIN knowledge_bases : \E uploaded_by \in Users :
          /\ IsContentManager(knowledge_bases, admin_users, kb_id, uploaded_by)
          /\ blob_uploads' = Append(blob_uploads,
                [kb_id |-> kb_id, uploaded_by |-> uploaded_by])
          /\ index_documents' = Append(index_documents,
                [kb_id |-> kb_id, uploaded_by |-> uploaded_by])
          /\ last_call' = Call("upload_document", kb_id, uploaded_by, "Document")
    /\ UNCHANGED <<admin_users, knowledge_bases>>
    /\ UNCHANGED notKbVars

\* lines 211-258: the file is stored, index_document raises and the error is
\* logged (lines 254-255)
UploadNotIndexed ==
    /\ Len(blob_uploads) < MaxUploads
    /\ \E kb_id \in DOMAIN knowledge_bases : \E uploaded_by \in Users :
          /\ IsContentManager(knowledge_bases, admin_users, kb_id, uploaded_by)
          /\ blob_uploads' = Append(blob_uploads,
                [kb_id |-> kb_id, uploaded_by |-> uploaded_by])
          /\ last_call' = Call("upload_document", kb_id, uploaded_by, "Document")
    /\ UNCHANGED <<admin_users, knowledge_bases, index_documents>>
    /\ UNCHANGED notKbVars

---------------------------------------------------------------------------
(* Concurrent process_query invocations on one RAGService *)

Calls == 1..MaxCalls

\* lines 48-49: the configuration and the client, set once in __init__
ServiceAttributes == [config |-> "OpenAIConfig", client |-> "OpenAI"]

\* what the providers answer to the invocations
ConcVectors == {<<1, 0>>, <<-1, 1>>}
ConcAnswers == {<<"x">>}
ConcPoolChunk(i, em) ==
    [chunk_id |-> i, document_id |-> 100 + i, text |-> TextOfLen(2),
     embedding |-> em, metadata |-> None]
ConcPools ==
    {<<ConcPoolChunk(1, Some(<<1, 0>>)), ConcPoolChunk(2, Some(<<0, 0>>))>>,
     <<ConcPoolChunk(1, Some(<<0, 0>>))>>}

\* lines 181-188, 214-222 as one function: the response generate_answer
\* builds from the chunks it was given and the provider's answer
RagResponseOf(context, answer) ==
    [answer |-> answer,
     sources |-> [i \in 1..Len(context) |-> SourceEntry(context[i])],
     confidence |-> Confidence(answer)]

\* the arguments and locals of an invocation at line 246, the embedding
\* request not yet answered; embed_request, embed_reply, embed_failure,
\* gen_reply and gen_failure are history: what this invocation sent to and
\* got from the providers
NewCall(q, pool, k) ==
    [pc |-> "embed", question |-> q, document_chunks |-> pool, top_k |-> k,
     query_embedding |-> <<>>, relevant_chunks |-> <<>>,
     embed_request |-> None, embed_reply |-> None, embed_failure |-> "none",
     gen_reply |-> None, gen_failure |-> "none",
     result |-> None, error |-> "none"]

ConcInit ==
    /\ service = ServiceAttributes
    /\ calls \in [Calls -> {NewCall(q, pool, 1) :
                              q \in Questions, pool \in ConcPools}]

\* the embedding is kept where every invocation reads it, as an attribute
\* of the service would be
ConcEmbedOk_SharedAttribute ==
    /\ \E i \in Calls : \E v \in ConcVectors :
          /\ calls[i].pc = "embed"
          /\ calls' = [j \in Calls |->
                IF j = i
                THEN [calls[j] EXCEPT !.pc = "retrieve",
                         !.embed_request = Some(calls[j].question),
                         !.embed_reply = Some(v),
                         !.query_embedding = v]
                ELSE [calls[j] EXCEPT !.query_embedding = v]]
    /\ UNCHANGED service
    /\ UNCHANGED notConcVars

\* line 246 in invocation i: the embedding provider answers
ConcEmbedOk ==
    /\ \E i \in Calls : \E v \in ConcVectors :
          /\ calls[i].pc = "embed"
          /\ calls' = [calls EXCEPT ![i] =
                [calls[i] EXCEPT !.pc = "retrieve",
                                 !.embed_request = Some(calls[i].question),
                                 !.embed_reply = Some(v),
                                 !.query_embedding = v]]
    /\ UNCHANGED service
    /\ UNCHANGED notConcVars

\* line 246 in invocation i: the embedding provider fails
ConcEmbedFail ==
    /\ \E i \in Calls : \E e \in ProviderErrors :
          /\ calls[i].pc = "embed"
          /\ calls' = [calls EXCEPT ![i] =
                [calls[i] EXCEPT !.pc = "failed",
                                 !.embed_request = Some(calls[i].question),
                                 !.embed_failure = e,
                                 !.error = Reraise(e)]]
    /\ UNCHANGED service
    /\ UNCHANGED notConcVars

\* lines 249-253 in invocation i
ConcRetrieve ==
    /\ \E i \in Calls :
          /\ calls[i].pc = "retrieve"
          /\ calls' = [calls EXCEPT ![i] =
                [calls[i] EXCEPT !.pc = "synthesize",
                                 !.relevant_chunks =
                                     RetrieveRelevantChunks(
                                         calls[i].query_embedding,
                                         calls[i].document_chunks,
                                         calls[i].top_k)]]
    /\ UNCHANGED service
    /\ UNCHANGED notConcVars

\* line 256 in invocation i: the generation provider answers
ConcAnswerOk ==
    /\ \E i \in Calls : \E answer \in ConcAnswers :
          /\ calls[i].pc = "synthesize"
          /\ calls' = [calls EXCEPT ![i] =
                [calls[i] EXCEPT !.pc = "done",
                                 !.gen_reply = Some(answer),
                                 !.result = Some(RagResponseOf(
                                     calls[i].relevant_chunks, answer))]]
    /\ UNCHANGED service
    /\ UNCHANGED notConcVars

\* line 256 in invocation i: the generation provider fails
ConcAnswerFail ==
    /\ \E i \in Calls : \E e \in GenErrors :
          /\ calls[i].pc = "synthesize"
          /\ calls' = [calls EXCEPT ![i] =
                [calls[i] EXCEPT !.pc = "failed",
                                 !.gen_failure = e,
                                 !.error = Reraise(e)]]
    /\ UNCHANGED service
    /\ UNCHANGED notConcVars

---------------------------------------------------------------------------
(* The specifications.  Each runs one operation; the others stay idle. *)

ChunkIdle ==
    /\ cpc = "idle" /\ text = <<>> /\ chunk_size = 0 /\ overlap = 0
    /\ chunks = <<>> /\ start = 0 /\ text_len = 0 /\ offsets = <<>>
    /\ outcome = "none"

CosineIdle ==
    /\ spc = "idle" /\ vec1 = <<>> /\ vec2 = <<>> /\ similarity = Zero

RetrieveIdle ==
    /\ rpc = "idle" /\ query_embedding = <<>> /\ document_chunks = <<>>
    /\ top_k = 0 /\ idx = 0 /\ scored_chunks = <<>> /\ relevant = <<>>

EmbedIdle ==
    /\ epc = "idle" /\ embed_batch = FALSE /\ embed_input = <<>>
    /\ embed_requests = <<>> /\ embed_response = <<>> /\ embed_result = None
    /\ provider_error = "none" /\ embed_error = "none"

AnswerIdle ==
    /\ apc = "idle" /\ question = <<>> /\ context_chunks = <<>>
    /\ system_prompt = None /\ context_parts = <<>> /\ sources = <<>>
    /\ messages = <<>> /\ gen_requests = <<>> /\ rag_response = None
    /\ gen_provider_error = "none" /\ gen_error = "none"

KbIdle ==
    /\ admin_users = {} /\ knowledge_bases = [k \in {} |-> 0]
    /\ blob_uploads = <<>> /\ index_documents = <<>>
    /\ last_call = NoCall

ConcIdle ==
    /\ service = ServiceAttributes /\ calls = <<>>

QueryIdle ==
    /\ ppc = "idle" /\ pool_before = <<>> /\ pipe_result = None
    /\ pipe_error = "none"

ChunkSpecInit ==
    /\ ChunkInit /\ CosineIdle /\ RetrieveIdle /\ EmbedIdle /\ AnswerIdle
    /\ QueryIdle /\ KbIdle /\ ConcIdle
CosineSpecInit ==
    /\ ChunkIdle /\ CosineInit /\ RetrieveIdle /\ EmbedIdle /\ AnswerIdle
    /\ QueryIdle /\ KbIdle /\ ConcIdle
RetrieveSpecInit ==
    /\ ChunkIdle /\ CosineIdle /\ RetrieveInit /\ EmbedIdle /\ AnswerIdle
    /\ QueryIdle /\ KbIdle /\ ConcIdle
EmbedSpecInit ==
    /\ ChunkIdle /\ CosineIdle /\ RetrieveIdle /\ EmbedInit /\ AnswerIdle
    /\ QueryIdle /\ KbIdle /\ ConcIdle
AnswerSpecInit ==
    /\ ChunkIdle /\ CosineIdle /\ RetrieveIdle /\ EmbedIdle /\ AnswerInit
    /\ QueryIdle /\ KbIdle /\ ConcIdle
QuerySpecInit ==
    /\ ChunkIdle /\ CosineIdle /\ QueryInit /\ KbIdle /\ ConcIdle

KbSpecInit ==
    /\ ChunkIdle /\ CosineIdle /\ RetrieveIdle /\ EmbedIdle /\ AnswerIdle
    /\ QueryIdle /\ KbInit /\ ConcIdle

ConcSpecInit ==
    /\ ChunkIdle /\ CosineIdle /\ RetrieveIdle /\ EmbedIdle /\ AnswerIdle
    /\ QueryIdle /\ KbIdle /\ ConcInit

ChunkNext ==
    \/ ChunkEmptyReturn
    \/ ChunkBegin
    \/ ChunkLoopIter
    \/ ChunkReturn

CosineNext ==
    \/ CosineZeroReturn
    \/ CosineDivideReturn

RetrieveNext ==
    \/ RetrieveScore
    \/ RetrieveSkip
    \/ RetrieveSort
    \/ RetrieveReturn

EmbedNext ==
    \/ EmbedProviderOk
    \/ EmbedProviderFail
    \/ EmbedBatchOk
    \/ EmbedBatchFail

AnswerNext ==
    \/ AnswerAddSource
    \/ AnswerBuildMessages
    \/ AnswerProviderOk
    \/ AnswerProviderFail

\* process_query runs generate_embedding, retrieve_relevant_chunks and
\* generate_answer as its stages
QueryNext ==
    \/ QueryEmbedCall
    \/ EmbedProviderOk
    \/ EmbedProviderFail
    \/ QueryEmbedFailed
    \/ QueryRetrieveCall
    \/ RetrieveScore
    \/ RetrieveSkip
    \/ RetrieveSort
    \/ RetrieveReturn
    \/ QueryAnswerCall
    \/ AnswerAddSource
    \/ AnswerBuildMessages
    \/ AnswerProviderOk
    \/ AnswerProviderFail
    \/ QueryAnswerFailed
    \/ QueryReturn

KbNext ==
    \/ CreateKnowledgeBase
    \/ UpdateAccessPolicies
    \/ UpdateUnknownKb
    \/ IsContentManagerCall
    \/ UploadUnknownKb
    \/ UploadDenied
    \/ UploadBlobFails
    \/ UploadIndexed
    \/ UploadNotIndexed

\* the invocations take their steps in any order
ConcNext ==
    \/ ConcEmbedOk
    \/ ConcEmbedFail
    \/ ConcRetrieve
    \/ ConcAnswerOk
    \/ ConcAnswerFail

ConcSpec     == ConcSpecInit /\ [][ConcNext]_vars
KbSpec       == KbSpecInit /\ [][KbNext]_vars
QuerySpec    == QuerySpecInit /\ [][QueryNext]_vars
\* process_query is straight-line code on one thread: a step that can run
\* does run, and a provider call returns or raises
QueryLiveSpec == QuerySpecInit /\ [][QueryNext]_vars /\ WF_vars(QueryNext)
AnswerSpec   == AnswerSpecInit /\ [][AnswerNext]_vars
EmbedSpec    == EmbedSpecInit /\ [][EmbedNext]_vars
ChunkSpec    == ChunkSpecInit /\ [][ChunkNext]_vars
CosineSpec   == CosineSpecInit /\ [][CosineNext]_vars
RetrieveSpec == RetrieveSpecInit /\ [][RetrieveNext]_vars

---------------------------------------------------------------------------
(* Properties of chunk_text, under ChunkSpec. *)

\* the contract of section 4.1: chunk_size positive, 0 <= overlap < chunk_size
ValidParams == chunk_size > 0 /\ 0 <= overlap /\ overlap < chunk_size

CeilDiv(a, b) == (a + b - 1) \div b

\* C1: chunk_text never loops indefinitely: whenever the loop runs, the
\* stride chunk_size - overlap is at least 1, and so the loop has appended at
\* most one window per character of the text.
C1_ChunkTextTerminates ==
    cpc = "loop" =>
        /\ chunk_size - overlap >= 1
        /\ Len(chunks) <= text_len

\* C2: for a non-empty text and valid chunk_size and overlap, consecutive
\* window start offsets differ by exactly chunk_size - overlap, every window
\* is the text at its offset, and the windows returned cover every character
\* position of the text.
C2_WindowsCoverText ==
    (text # <<>> /\ ValidParams) =>
        /\ Len(offsets) = Len(chunks)
        /\ \A i \in 1..(Len(offsets) - 1) :
              offsets[i + 1] - offsets[i] = chunk_size - overlap
        /\ \A i \in 1..Len(chunks) : \A j \in 1..Len(chunks[i]) :
              /\ offsets[i] + j <= Len(text)
              /\ chunks[i][j] = text[offsets[i] + j]
        /\ cpc = "done" =>
              \A p \in 1..Len(text) : \E i \in 1..Len(chunks) :
                  offsets[i] < p /\ p <= offsets[i] + Len(chunks[i])

C2_Witness ==
    /\ cpc = "done" /\ text # <<>> /\ ValidParams
    /\ overlap > 0
    /\ Len(chunks) >= 2
    /\ \E i, j \in 1..Len(text) : text[i] # text[j]

\* C3: for valid chunk_size and overlap with stride s, chunk_text returns
\* exactly ceil(len / s) windows, the i-th (0-based) being
\* T[i*s : min(i*s + chunk_size, len)], non-empty and at most chunk_size long;
\* length 2500 with chunk_size 1000 and overlap 200 gives lengths
\* 1000, 1000, 900, 100 at offsets 0, 800, 1600, 2400.
C3_WindowCountAndContent ==
    (cpc = "done" /\ text # <<>> /\ ValidParams) =>
        LET s == chunk_size - overlap
            n == Len(text)
        IN  /\ Len(chunks) = CeilDiv(n, s)
            /\ \A i \in 1..Len(chunks) :
                  LET lo == (i - 1) * s
                      hi == Min(lo + chunk_size, n)
                  IN  /\ chunks[i] = SubSeq(text, lo + 1, hi)
                      /\ Len(chunks[i]) >= 1
                      /\ Len(chunks[i]) <= chunk_size
            /\ (n = 2500 /\ chunk_size = 1000 /\ overlap = 200) =>
                  /\ [i \in 1..Len(chunks) |-> Len(chunks[i])]
                        = <<1000, 1000, 900, 100>>
                  /\ offsets = <<0, 800, 1600, 2400>>

\* a run whose second window lies wholly inside the first, and is emitted
C3_Witness ==
    /\ cpc = "done" /\ text # <<>> /\ ValidParams
    /\ Len(chunks) >= 3
    /\ offsets[2] + Len(chunks[2]) <= offsets[1] + Len(chunks[1])
    /\ Len(chunks[Len(chunks)]) < chunk_size

\* C4: on the empty text chunk_text returns the empty list for any chunk_size
\* and overlap, and the windowing loop is never entered.
C4_EmptyTextNoLoop ==
    (cpc # "idle" /\ text = <<>>) =>
        /\ cpc \in {"call", "done"}
        /\ chunks = <<>>
        /\ offsets = <<>>
        /\ cpc = "done" => outcome = "returned"

C4_Witness ==
    /\ cpc = "done" /\ text = <<>> /\ outcome = "returned"
    /\ ~ValidParams

\* C5: chunk_text on a non-empty text with an invalid chunk_size/overlap
\* combination ends in an InputError outcome and returns no windows.
C5_InvalidParamsRejected ==
    (cpc = "done" /\ text # <<>> /\ ~ValidParams) =>
        /\ outcome = "InputError"
        /\ chunks = <<>>

---------------------------------------------------------------------------
(* Properties of retrieve_relevant_chunks, under RetrieveSpec. *)

Range(s) == {s[i] : i \in 1..Len(s)}
Count(s, x) == Cardinality({i \in 1..Len(s) : s[i] = x})

\* the chunk carries an embedding: present, and not the empty list
HasEmbedding(c) == Len(c.embedding) = 1 /\ Len(c.embedding[1]) > 0

Scorable == {i \in 1..Len(document_chunks) : HasEmbedding(document_chunks[i])}

\* the similarity of a chunk with an embedding to the query
Sim(c) == CosineSimilarity(query_embedding, c.embedding[1])

\* C6: for every non-negative top_k the result has exactly
\* min(top_k, number of candidates that have an embedding) chunks.
C6_ReturnsMinTopK ==
    (rpc = "done" /\ top_k >= 0) =>
        Len(relevant) = Min(top_k, Cardinality(Scorable))

\* top_k exceeds the number of scorable candidates, one candidate has none
C6_Witness ==
    /\ rpc = "done"
    /\ Cardinality(Scorable) >= 1
    /\ Cardinality(Scorable) < Len(document_chunks)
    /\ top_k > Cardinality(Scorable)
    /\ Len(relevant) = Cardinality(Scorable)

\* C7: the result is in non-increasing order of similarity to the query, and
\* every returned chunk is at least as similar as every scorable candidate
\* left out; query [1,0,0] with top_k = 2 returns the [1,0,0] chunk, then the
\* [0.9,0.1,0] chunk, and leaves the [0,1,0] chunk out.
C7_RankedBestFirst ==
    rpc = "done" =>
        /\ \A i \in 1..(Len(relevant) - 1) :
              ~ScoreLess(Sim(relevant[i]), Sim(relevant[i + 1]))
        /\ \A i \in 1..Len(relevant) : \A j \in Scorable :
              document_chunks[j] \notin Range(relevant)
                 => ~ScoreLess(Sim(relevant[i]), Sim(document_chunks[j]))
        /\ (query_embedding = ScenarioQuery /\ document_chunks = ScenarioChunks
              /\ top_k = 2)
              => [i \in 1..Len(relevant) |-> relevant[i].chunk_id] = <<1, 3>>

\* two chunks returned, the first strictly more similar, and a less similar
\* candidate that stands before the second in the input is left out
C7_Witness ==
    /\ rpc = "done"
    /\ Len(relevant) = 2
    /\ ScoreLess(Sim(relevant[2]), Sim(relevant[1]))
    /\ \E j \in Scorable :
          /\ document_chunks[j] \notin Range(relevant)
          /\ j < relevant[2].chunk_id
          /\ ScoreLess(Sim(document_chunks[j]), Sim(relevant[2]))

\* C8: a candidate without an embedding is never scored and never returned;
\* every returned chunk is a candidate that has an embedding, and is returned
\* no more often than it occurs among the candidates.
C8_OnlyEmbeddedCandidates ==
    /\ \A i \in 1..Len(scored_chunks) :
          /\ HasEmbedding(scored_chunks[i].chunk)
          /\ scored_chunks[i].chunk \in Range(document_chunks)
    /\ \A i \in 1..Len(relevant) :
          /\ HasEmbedding(relevant[i])
          /\ relevant[i] \in Range(document_chunks)
          /\ Count(relevant, relevant[i]) <= Count(document_chunks, relevant[i])

\* a candidate with None and one with the empty list, with room for both
C8_Witness ==
    /\ rpc = "done"
    /\ \E i, j \in 1..Len(document_chunks) :
          /\ document_chunks[i].embedding = None
          /\ document_chunks[j].embedding = Some(<<>>)
    /\ top_k >= Len(document_chunks)
    /\ relevant = <<>>

\* C9: ranking is stable: two returned chunks with equal similarity are in
\* the order they have in the candidate list.
C9_StableRanking ==
    rpc \in {"slice", "done"} =>
        /\ \A i, j \in 1..Len(scored_chunks) :
              (i < j /\ scored_chunks[i].similarity = scored_chunks[j].similarity)
                 => scored_chunks[i].chunk.chunk_id < scored_chunks[j].chunk.chunk_id
        /\ \A i, j \in 1..Len(relevant) :
              (i < j /\ Sim(relevant[i]) = Sim(relevant[j]))
                 => relevant[i].chunk_id < relevant[j].chunk_id

\* two returned chunks with different embeddings tie
C9_Witness ==
    /\ rpc = "done"
    /\ Len(relevant) = 2
    /\ Sim(relevant[1]) = Sim(relevant[2])
    /\ relevant[1].embedding # relevant[2].embedding

---------------------------------------------------------------------------
(* Properties of cosine_similarity, under CosineSpec. *)

AllZero(v) == \A i \in 1..Len(v) : v[i] = 0

\* C10: cosine_similarity returns exactly 0.0, and raises no division by zero,
\* whenever either vector has zero magnitude (both zero and the empty vector
\* included).
C10_ZeroMagnitudeGivesZero ==
    (spc = "done" /\ (AllZero(vec1) \/ AllZero(vec2))) =>
        /\ similarity = Zero
        /\ similarity # ZeroDivisionError

\* a nonzero vector against a zero vector
C10_Witness ==
    /\ spc = "done"
    /\ ~AllZero(vec1)
    /\ AllZero(vec2) /\ Len(vec2) = 2
    /\ similarity = Zero

---------------------------------------------------------------------------
(* Properties of the embedder, under EmbedSpec. *)

\* C20: generate_embedding and generate_embeddings_batch each make exactly one
\* request to the embedding provider per invocation; when it fails, the
\* provider's error reaches the caller unchanged, nothing is tried again and
\* no vector is returned in its place.
C20_OneEmbeddingRequest ==
    /\ epc = "call" => embed_requests = <<>>
    /\ epc \in {"done", "failed"} => embed_requests = <<embed_input>>
    /\ epc = "failed" =>
          /\ provider_error \in ProviderErrors
          /\ embed_error = provider_error
          /\ embed_result = None
    /\ epc = "done" => embed_error = "none" /\ embed_result # None

\* a failed batch request
C20_Witness ==
    /\ epc = "failed"
    /\ embed_batch /\ Len(embed_input) = 2
    /\ embed_error = "RateLimitError"
    /\ Len(embed_requests) = 1

\* C21: generate_embeddings_batch returns exactly one vector per input text,
\* and the i-th returned vector is the vector the provider's response holds
\* for the i-th input text: the output order is the input order.
C21_BatchOrderPreserved ==
    (epc = "done" /\ embed_batch) =>
        /\ Len(embed_response) = Len(embed_input)
        /\ Len(embed_result[1]) = Len(embed_input)
        /\ \A i \in 1..Len(embed_input) :
              embed_result[1][i] = embed_response[i].embedding

\* a batch of two different texts answered with two different vectors
C21_Witness ==
    /\ epc = "done" /\ embed_batch
    /\ Len(embed_input) = 2
    /\ embed_input[1] # embed_input[2]
    /\ embed_result[1] = <<(<<1, 0>>), (<<-1, 1>>)>>

---------------------------------------------------------------------------
(* Properties of generate_answer, under AnswerSpec. *)

\* the messages of the one request sent to the generation provider
SentMessages == gen_requests[1]
SentContent  == SentMessages[2].content

\* how many elements of the user message precede the i-th chunk's part:
\* "Context:\n", then per earlier chunk its label (3 elements), its text and
\* the separator
RECURSIVE PartOffset(_)
PartOffset(i) ==
    IF i = 1 THEN 1
    ELSE PartOffset(i - 1) + 3 + Len(context_chunks[i - 1].text) + 1

\* where the context block ends in the user message
ContextEnd ==
    LET n == Len(context_chunks)
    IN  IF n = 0 THEN 1 ELSE PartOffset(n) + 3 + Len(context_chunks[n].text)

\* C13: the context block sent to the generation provider holds the full text
\* of every context chunk, the i-th (1-based) prefixed with "[Source i]", in
\* the order of context_chunks, none dropped, repeated or moved.
C13_ContextBlock ==
    apc \in {"done", "failed"} =>
        /\ Len(gen_requests) = 1
        /\ Len(SentMessages) = 2
        /\ Len(SentContent) = ContextEnd + 1 + Len(question)
        /\ SentContent[1] = "Context:\n"
        /\ \A i \in 1..Len(context_chunks) :
              LET p == PartOffset(i)
                  t == context_chunks[i].text
              IN  /\ SentContent[p + 1] = "[Source "
                  /\ SentContent[p + 2] = Str(i)
                  /\ SentContent[p + 3] = "]: "
                  /\ SubSeq(SentContent, p + 4, p + 3 + Len(t)) = t
                  /\ i < Len(context_chunks)
                        => SentContent[p + 4 + Len(t)] = "\n\n"
        /\ SentContent[ContextEnd + 1] = "\n\nQuestion: "
        /\ SubSeq(SentContent, ContextEnd + 2, Len(SentContent)) = question

\* two chunks, the first longer than a preview
C13_Witness ==
    /\ apc = "done"
    /\ Len(context_chunks) = 2
    /\ Len(context_chunks[1].text) > PreviewLen
    /\ Len(context_chunks[2].text) = 2
    /\ question # <<>>

\* C14: on success the sources of the result have one entry per context
\* chunk, in order, the i-th with the chunk_id and document_id of the i-th
\* chunk and a metadata mapping, empty when the chunk has no metadata.
C14_SourcesMatchChunks ==
    apc = "done" =>
        LET r == rag_response[1]
        IN  /\ Len(r.sources) = Len(context_chunks)
            /\ \A i \in 1..Len(r.sources) :
                  /\ r.sources[i].chunk_id = context_chunks[i].chunk_id
                  /\ r.sources[i].document_id = context_chunks[i].document_id
                  /\ r.sources[i].metadata =
                        IF context_chunks[i].metadata = None
                        THEN {}
                        ELSE context_chunks[i].metadata[1]

\* a chunk without metadata, then one with metadata
C14_Witness ==
    /\ apc = "done"
    /\ Len(context_chunks) = 2
    /\ context_chunks[1].metadata = None
    /\ context_chunks[2].metadata = Some({<<"source", "doc1">>})
    /\ Len(rag_response[1].sources) = 2

\* C15: with an empty context_chunks list generate_answer still sends exactly
\* one request, with an empty context block, and on success returns
\* sources == [].
C15_EmptyContextStillAsks ==
    (context_chunks = <<>> /\ apc \in {"done", "failed"}) =>
        /\ Len(gen_requests) = 1
        /\ SentContent = <<"Context:\n", "\n\nQuestion: ">> \o question
        /\ apc = "done" => rag_response[1].sources = <<>>

C15_Witness ==
    /\ apc = "done"
    /\ context_chunks = <<>>
    /\ Len(gen_requests) = 1
    /\ rag_response[1].sources = <<>>
    /\ Len(rag_response[1].answer) > 0

\* C16: the text_preview of a source is the whole chunk text when that has at
\* most 200 characters, and else its first 200 characters followed by "...";
\* it never exceeds 203 characters and a text of exactly 200 gets no ellipsis.
C16_TextPreview ==
    apc # "idle" =>
        \A i \in 1..Len(sources) :
            LET t == context_chunks[i].text
                pv == sources[i].text_preview
            IN  /\ Len(pv) <= 203
                /\ Len(t) <= 200 => pv = t
                /\ Len(t) > 200 =>
                      /\ Len(pv) = 203
                      /\ SubSeq(pv, 1, 200) = SubSeq(t, 1, 200)
                      /\ SubSeq(pv, 201, 203) = <<".", ".", ".">>

\* a text of exactly 200 characters and one of 201
C16_Witness ==
    /\ apc = "done"
    /\ Len(sources) = 2
    /\ Len(context_chunks[1].text) = 200
    /\ sources[1].text_preview = context_chunks[1].text
    /\ Len(context_chunks[2].text) = 201
    /\ Len(sources[2].text_preview) = 203

C18_SystemPromptAsSupplied ==
    apc \in {"done", "failed"} =>
        /\ Len(SentMessages) = 2
        /\ SentMessages[1].role = "system"
        /\ SentMessages[2].role = "user"
        /\ system_prompt = None
              => SentMessages[1].content = DefaultSystemPrompt
        /\ system_prompt # None
              => SentMessages[1].content = system_prompt[1]

\* C18 as amended: the default system instruction when system_prompt is None
\* or the empty string, exactly the caller's system_prompt whenever it is a
\* non-empty string; two messages, the system message, then the user message
\* holding the context block and the question.
C18_SystemPromptUnlessEmpty ==
    apc \in {"done", "failed"} =>
        /\ Len(SentMessages) = 2
        /\ SentMessages[1].role = "system"
        /\ SentMessages[2].role = "user"
        /\ (system_prompt = None \/ system_prompt = Some(<<>>))
              => SentMessages[1].content = DefaultSystemPrompt
        /\ (system_prompt # None /\ system_prompt # Some(<<>>))
              => SentMessages[1].content = system_prompt[1]
        /\ SentContent[1] = "Context:\n"
        /\ SubSeq(SentContent, Len(SentContent) - Len(question),
                  Len(SentContent)) = <<"\n\nQuestion: ">> \o question

\* a caller's own system prompt is sent
C18_Witness ==
    /\ apc = "done"
    /\ system_prompt = Some(<<"Answer in one sentence.">>)
    /\ SentMessages[1].content = <<"Answer in one sentence.">>

\* C19: when the generation provider fails, generate_answer raises that error
\* unchanged, returns no result, and sends no second request.
C19_GenerationFailureRaised ==
    /\ gen_provider_error # "none" =>
          /\ apc = "failed"
          /\ gen_error = gen_provider_error
          /\ rag_response = None
          /\ Len(gen_requests) = 1
    /\ apc = "failed" => gen_provider_error # "none"
    /\ apc = "done" => gen_error = "none" /\ Len(gen_requests) = 1

C19_Witness ==
    /\ apc = "failed"
    /\ gen_error = "APITimeoutError"
    /\ Len(sources) = 2
    /\ rag_response = None

---------------------------------------------------------------------------
(* Properties of process_query, under QuerySpec. *)

\* C12: retrieve_relevant_chunks, generate_answer and process_query leave the
\* caller's chunk pool unchanged: at every point of a query, and so after it
\* returned or failed, the pool has the same chunks in the same order, and
\* every chunk the stages hold (scored, retrieved, given as context) is a
\* chunk of the pool with chunk_id, document_id, text, embedding and metadata
\* as passed.
C12_PoolUnchanged ==
    ppc # "idle" =>
        /\ document_chunks = pool_before
        /\ \A i \in 1..Len(scored_chunks) :
              scored_chunks[i].chunk \in Range(pool_before)
        /\ \A i \in 1..Len(relevant) : relevant[i] \in Range(pool_before)
        /\ \A i \in 1..Len(context_chunks) :
              context_chunks[i] \in Range(pool_before)

\* a query that reordered its candidates and returned two sources
C12_Witness ==
    /\ ppc = "done"
    /\ Len(pool_before) = 2
    /\ Len(pipe_result[1].sources) = 2
    /\ pipe_result[1].sources[1].chunk_id = 2
    /\ context_chunks[1] = pool_before[2]

\* the stage a query is in: INIT, EMBED_QUERY, RETRIEVE, SYNTHESIZE, DONE,
\* FAILED are the values "init", "embed", "retrieve", "synthesize", "done",
\* "failed" of ppc
StageSteps ==
    {<<"init", "embed">>, <<"embed", "retrieve">>,
     <<"retrieve", "synthesize">>, <<"synthesize", "done">>,
     <<"embed", "failed">>, <<"retrieve", "failed">>,
     <<"synthesize", "failed">>}

\* C22: every process_query call moves through INIT, EMBED_QUERY, RETRIEVE,
\* SYNTHESIZE, DONE in this order, or to FAILED from a stage: no stage is
\* skipped or repeated; retrieval has started only with the query embedding
\* the embedder returned; the generation provider is called only after
\* retrieval finished, with the chunks it returned; and, the provider calls
\* returning, the call ends in DONE or FAILED.
C22_StagesInOrder ==
    /\ [][ppc' # ppc => <<ppc, ppc'>> \in StageSteps]_vars
    /\ [](rpc # "idle" =>
            /\ ppc \in {"retrieve", "synthesize", "done", "failed"}
            /\ epc = "done"
            /\ query_embedding = embed_result[1])
    /\ [](apc # "idle" =>
            /\ ppc \in {"synthesize", "done", "failed"}
            /\ rpc = "done"
            /\ context_chunks = relevant)
    /\ [](gen_requests # <<>> => rpc = "done")
    /\ [](embed_requests # <<>> => ppc # "init")
    /\ <>(ppc \in {"done", "failed"})

\* a query that went through all stages and returned
C22_Witness ==
    /\ ppc = "done"
    /\ Len(embed_requests) = 1
    /\ rpc = "done" /\ Len(relevant) = 2
    /\ Len(gen_requests) = 1
    /\ pipe_result # None

\* C23: process_query is fail-fast with zero retries: when the embedding
\* provider call fails, no retrieval is done and the generation provider is
\* never called for that query; in every call the embedding provider is
\* called at most once and the generation provider at most once; and a
\* failed call returns no response, only the error of the failing stage.
C23_FailFastNoRetry ==
    /\ Len(embed_requests) <= 1
    /\ Len(gen_requests) <= 1
    /\ epc = "failed" =>
          /\ rpc = "idle" /\ idx = 0
          /\ scored_chunks = <<>> /\ relevant = <<>>
          /\ apc = "idle" /\ gen_requests = <<>>
          /\ ppc \in {"embed", "failed"}
    /\ ppc = "failed" =>
          /\ pipe_result = None
          /\ \/ epc = "failed" /\ pipe_error = provider_error
             \/ apc = "failed" /\ pipe_error = gen_provider_error
          /\ pipe_error # "none"
    /\ ppc = "done" => epc = "done" /\ apc = "done" /\ pipe_error = "none"

\* a query whose embedding call failed, with a pool that had scorable chunks
C23_Witness ==
    /\ ppc = "failed"
    /\ pipe_error = "APIConnectionError"
    /\ Len(embed_requests) = 1
    /\ Len(document_chunks) = 2
    /\ document_chunks[1].embedding = Some(<<1, 0>>)
    /\ top_k = 2

\* the errors that can leave process_query from each stage: lines 95-97 and
\* 224-226 raise the provider's error again as it is, and process_query
\* (lines 246, 256) lets it through
SurfacedFromEmbed == {Reraise(e) : e \in ProviderErrors}
SurfacedFromSynthesize == {Reraise(e) : e \in GenErrors}

\* C24: an error that leaves process_query identifies the stage it came
\* from: the error of a failed embedding call is not one a failed generation
\* call can surface, and the other way round, so the caller can tell the
\* failing stage from the error alone.
C24_ErrorNamesStage ==
    ppc = "failed" =>
        /\ epc = "failed" => pipe_error \notin SurfacedFromSynthesize
        /\ apc = "failed" => pipe_error \notin SurfacedFromEmbed

\* C26: process_query called with an empty question ends in an InputError
\* outcome and makes no call to the embedding provider or the generation
\* provider.
C26_EmptyQuestionRejected ==
    (ppc # "idle" /\ question = <<>>) =>
        /\ embed_requests = <<>>
        /\ gen_requests = <<>>
        /\ ppc \in {"init", "failed"}
        /\ ppc = "failed" => pipe_error = "InputError"

---------------------------------------------------------------------------
(* Further properties of the retriever, under RetrieveSpec. *)

\* C27: the result of retrieve_relevant_chunks never has more elements than
\* the requested top_k, for every integer top_k: top_k = 0 gives the empty
\* list and a negative top_k gives no non-empty ranking.
C27_AtMostTopK ==
    rpc = "done" =>
        /\ top_k >= 0 => Len(relevant) <= top_k
        /\ top_k <= 0 => relevant = <<>>

\* the scored candidates whose embedding has zero magnitude
ZeroScored ==
    {i \in 1..Len(scored_chunks) : AllZero(scored_chunks[i].chunk.embedding[1])}

\* C30 as claimed: a candidate whose embedding has zero magnitude gets the
\* lowest possible rank: its score 0.0 is less than or equal to the score of
\* every other scored candidate.
C30_ZeroMagnitudeLowest ==
    rpc = "done" =>
        \A i \in ZeroScored :
            /\ scored_chunks[i].similarity = Zero
            /\ \A j \in 1..Len(scored_chunks) :
                  ~ScoreLess(scored_chunks[j].similarity, Zero)

\* C30: a candidate whose embedding has zero magnitude gets the score 0.0
\* and its place in the ranking is that of the score 0.0: every candidate
\* ranked before it has a similarity of at least 0 and every candidate
\* ranked after it a similarity of at most 0, so no candidate of positive
\* similarity is ranked below it, while candidates of negative similarity
\* are.
C30_ZeroMagnitudeRanksAtZero ==
    rpc = "done" =>
        \A i \in ZeroScored :
            /\ scored_chunks[i].similarity = Zero
            /\ \A j \in 1..Len(scored_chunks) :
                  /\ j < i => ~ScoreLess(scored_chunks[j].similarity, Zero)
                  /\ j > i => ~ScoreLess(Zero, scored_chunks[j].similarity)

\* a zero-magnitude candidate, second in the pool, returned ahead of a
\* candidate that points away from the query
C30_Witness ==
    /\ rpc = "done"
    /\ Len(scored_chunks) = 2
    /\ 1 \in ZeroScored
    /\ ScoreLess(scored_chunks[2].similarity, Zero)
    /\ Len(relevant) = 2
    /\ relevant[1].chunk_id = 2

---------------------------------------------------------------------------
(* The result of process_query against the retrieval, under QuerySpec. *)

\* the sources of a returned response are the chunks that
\* retrieve_relevant_chunks selects from the pool for the embedding of the
\* question, in retrieval order; each is a pool chunk with an embedding, and
\* none is less similar to the query than the one after it
SourcesFollowRetrieval ==
    ppc = "done" =>
        LET src == pipe_result[1].sources
            sel == RetrieveRelevantChunks(FirstEmbedding(embed_response),
                                          pool_before, top_k)
        IN  /\ Len(src) = Len(sel)
            /\ \A i \in 1..Len(sel) :
                  /\ src[i] = SourceEntry(sel[i])
                  /\ sel[i] \in Range(pool_before)
                  /\ HasEmbedding(sel[i])
            /\ \A i \in 1..(Len(sel) - 1) :
                  ~ScoreLess(
                      CosineSimilarity(embed_result[1], sel[i].embedding[1]),
                      CosineSimilarity(embed_result[1], sel[i + 1].embedding[1]))

\* C29: on success, the sources of the response returned by
\* process_query(question, pool, top_k) are exactly the chunks
\* retrieve_relevant_chunks selects for the question's embedding, in
\* retrieval order: at most top_k sources, every source refers to a pool
\* chunk that has an embedding, and source i is at least as similar to the
\* query as source i+1.
C29_SourcesAreRetrieval ==
    /\ SourcesFollowRetrieval
    /\ ppc = "done" => Len(pipe_result[1].sources) <= top_k

\* the same with the number of sources bounded for the top_k the retriever
\* is specified for
SourcesAreRetrievalNonNegative ==
    /\ SourcesFollowRetrieval
    /\ (ppc = "done" /\ top_k >= 0) => Len(pipe_result[1].sources) <= top_k

---------------------------------------------------------------------------
(* Properties of KnowledgeBaseManager, under KbSpec. *)

\* the users that manage the content of an existing knowledge base: the
\* configured admins, its owner, and the content managers of its policies
Managers(kb_id) ==
    LET kb == knowledge_bases[kb_id]
    IN  admin_users \cup {kb.owner_id}
          \cup UNION {Range(kb.access_policies[i].content_managers) :
                        i \in 1..Len(kb.access_policies)}

\* is_content_manager is true for the managers of an existing knowledge base
\* and false for every other user, and false for every user of an unknown
\* kb_id, admins included; and so is the result of each call of it
ContentManagersExact ==
    /\ \A kb_id \in KbIds : \A u \in Users :
          IsContentManager(knowledge_bases, admin_users, kb_id, u)
             <=> (kb_id \in DOMAIN knowledge_bases /\ u \in Managers(kb_id))
    /\ last_call.op = "is_content_manager" =>
          last_call.result =
             IF /\ last_call.kb_id \in DOMAIN knowledge_bases
                /\ last_call.user_id \in Managers(last_call.kb_id)
             THEN "True" ELSE "False"

\* the last call was an upload by a user for whom is_content_manager is false
UploadByNonManager ==
    /\ last_call.op = "upload_document"
    /\ ~IsContentManager(knowledge_bases, admin_users,
                         last_call.kb_id, last_call.user_id)

NothingWritten ==
    last_call.writes_before = <<Len(blob_uploads), Len(index_documents)>>

\* C28 as claimed: is_content_manager is exact, and upload_document by a user
\* for whom it is false raises PermissionError before anything is written to
\* blob storage or the search index.
C28_NonManagerGetsPermissionError ==
    /\ ContentManagersExact
    /\ UploadByNonManager =>
          last_call.result = "PermissionError" /\ NothingWritten

\* C28: is_content_manager is exact; upload_document by a user for whom it is
\* false writes nothing to blob storage or the search index: it raises
\* PermissionError when the knowledge base exists and ValueError when the
\* kb_id is unknown; and every upload that was stored was asked for by a
\* manager of an existing knowledge base.
C28_NonManagerWritesNothing ==
    /\ ContentManagersExact
    /\ UploadByNonManager =>
          /\ NothingWritten
          /\ last_call.result =
                IF last_call.kb_id \in DOMAIN knowledge_bases
                THEN "PermissionError" ELSE "ValueError"
    /\ (last_call.op = "upload_document" /\ ~NothingWritten) =>
          /\ last_call.result = "Document"
          /\ last_call.kb_id \in DOMAIN knowledge_bases
          /\ last_call.user_id \in Managers(last_call.kb_id)

\* an upload refused to a user who is neither admin nor owner nor listed,
\* in a knowledge base that has a listed content manager and an admin
C28_Witness ==
    /\ last_call.op = "upload_document"
    /\ last_call.result = "PermissionError"
    /\ last_call.user_id = "user2@test.com"
    /\ admin_users = {"admin@test.com"}
    /\ knowledge_bases[last_call.kb_id].owner_id = "user1"
    /\ \E k \in DOMAIN knowledge_bases :
          "user2@test.com" \in Managers(k)
    /\ blob_uploads # <<>>

---------------------------------------------------------------------------
(* Properties of concurrent invocations, under ConcSpec. *)

\* what an invocation produces when it runs alone on its own question, chunk
\* pool and top_k and gets the provider replies it got
AloneOutcome(c) ==
    IF c.embed_failure # "none"
    THEN [result |-> None, error |-> c.embed_failure]
    ELSE IF c.gen_failure # "none"
    THEN [result |-> None, error |-> c.gen_failure]
    ELSE [result |-> Some(RagResponseOf(
                        RetrieveRelevantChunks(c.embed_reply[1],
                                               c.document_chunks, c.top_k),
                        c.gen_reply[1])),
          error |-> "none"]

\* every invocation works on its own question and pool and on the replies
\* the providers gave to it, and ends as it would alone
OwnOutcome(i) ==
    LET c == calls[i]
    IN  /\ c.embed_request # None => c.embed_request = Some(c.question)
        /\ c.pc \in {"retrieve", "synthesize", "done"} =>
              c.embed_reply # None /\ c.query_embedding = c.embed_reply[1]
        /\ c.pc \in {"synthesize", "done"} =>
              c.relevant_chunks =
                 RetrieveRelevantChunks(c.embed_reply[1], c.document_chunks,
                                        c.top_k)
        /\ c.pc = "done" => c.gen_reply # None
        /\ c.pc \in {"done", "failed"} =>
              [result |-> c.result, error |-> c.error] = AloneOutcome(c)

\* a step is the step of one invocation: it leaves the service, the
\* arguments of that invocation and everything of the other invocations as
\* they were
OneInvocationSteps ==
    /\ service' = service
    /\ \E i \in Calls :
          /\ \A j \in Calls \ {i} : calls'[j] = calls[j]
          /\ calls'[i].question = calls[i].question
          /\ calls'[i].document_chunks = calls[i].document_chunks
          /\ calls'[i].top_k = calls[i].top_k

\* C25: concurrent process_query invocations on one RAGService do not
\* interfere: under every interleaving of their stages each invocation's
\* result or error is the one it would produce when run alone on its own
\* question, chunk pool and provider replies; no invocation writes state
\* that another reads (the service's attributes are never written, a step
\* changes only the locals of the invocation that takes it); and so a
\* failure of one invocation leaves the others' outcomes unchanged.
C25_InvocationsDoNotInterfere ==
    /\ [](service = ServiceAttributes /\ \A i \in Calls : OwnOutcome(i))
    /\ [][OneInvocationSteps]_vars

\* two invocations on equal pools that got different embeddings: the first
\* returned chunk 1, the second ranked chunk 2 first and then failed in
\* the generation call
C25_Witness ==
    /\ calls # <<>>
    /\ calls[1].pc = "done" /\ calls[2].pc = "failed"
    /\ calls[1].document_chunks = calls[2].document_chunks
    /\ Len(calls[1].document_chunks) = 2
    /\ calls[1].embed_reply = Some(<<1, 0>>)
    /\ calls[2].embed_reply = Some(<<-1, 1>>)
    /\ calls[1].result[1].sources[1].chunk_id = 1
    /\ calls[2].relevant_chunks[1].chunk_id = 2
    /\ calls[2].gen_failure # "none" /\ calls[2].error = calls[2].gen_failure

=============================================================================
